---- MODULE Spec2Model ----
(***************************************************************************)
(* A model of src/main.py of growthic_reddit: RedditCore (the account pool *)
(* and the comment path) and CommentScheduler (the deferred comment        *)
(* scheduler driven by the `schedule` package's default scheduler and one  *)
(* daemon worker thread).                                                  *)
(*                                                                         *)
(* Time is counted in model units: one minute is MinuteLen units and one   *)
(* day is DayMinutes minutes.  The worker's time.sleep(60) is one minute.  *)
(* Strings are sequences of characters.                                    *)
(*                                                                         *)
(* Two threads run: the caller (load_accounts, schedule_comment,           *)
(* cancel_job) and the worker (_run_scheduler).  Neither holds a lock, so  *)
(* each call is cut into steps at the reads and writes of the shared       *)
(* state (self.scheduled_jobs, schedule.jobs) and the steps of the two     *)
(* threads interleave freely.  An assignment                               *)
(*     self.scheduled_jobs = [job for job in self.scheduled_jobs if ...]   *)
(* is two steps: the list is read and filtered, then the result is bound.  *)
(* load_accounts is one step.  The clock stands still inside a call of the *)
(* caller and inside a run_pending of the worker, and the worker wakes     *)
(* exactly when its sleep ends.                                            *)
(***************************************************************************)
EXTENDS Integers, Sequences, FiniteSets, TLC

\* ------------------------------------------------------------------ bounds
MinuteLen == 2
DayMinutes == 2
MaxCancel == 1
MaxSched == 2
MaxLoads == 2
NumSlots == 2
MaxItems == 2

DayLen == MinuteLen * DayMinutes
\* the runs end after the second day's first two minutes
MaxTime == DayLen + 2 * MinuteLen
\* time.sleep(60): sixty seconds, one minute of model time
SleepInterval == MinuteLen

\* ------------------------------------------------------------------ state
VARIABLES
    \* RedditCore
    reddit_accounts,    \* username -> session handle (a function on the loaded names)
    account_usernames,  \* sequence of usernames, index + 1 = ordinal
    is_loaded,
    \* the `schedule` package's default scheduler: schedule.jobs
    sched_jobs,
    \* CommentScheduler
    scheduled_jobs,     \* the live job list (sequence of job_info)
    running,
    threads,            \* number of worker threads started
    \* the clock
    now,
    \* the caller thread: position and locals
    cpc, c_job, c_id, c_new, c_wasLive,
    \* the worker thread: position and locals
    wpc, w_queue, w_new, wakeAt,
    \* history
    loads,              \* number of load_accounts calls made
    lastLoad,           \* what the most recent load_accounts call did
    calls,              \* calls[uid]: the arguments and id of the uid-th accepted schedule call
    returned,           \* returned[uid]: schedule_comment has returned for it
    invoked,            \* invoked[uid]: times at which submission.reply ran for it
    fired,              \* fired[uid]: number of runs of its post_job
    cancelCalled,       \* cancelCalled[uid]: cancel_job was called with its id after it was scheduled
    raced,              \* raced[uid]: a cancel_job of its id overlapped a run of its post_job
    cancelLog,          \* the most recent finished cancel_job call
    cancels,            \* number of cancel_job calls made
    cancelledPending,   \* the jobs that were pending, unfired and not queued to fire when cancel_job took their id
    tickStart, tickSeen, \* when the current/last run_pending began, and the jobs already returned then
    lastSubmit,         \* the most recent post_content call: its inputs and what it did
    lastVerify,         \* the most recent verify_subreddit call
    lastComment,        \* the most recent direct post_scheduled_comment or reply_to_comment call
    outcomes,           \* outcomes[uid]: one record per run of its post_job
    snap                \* the list a caller got from get_scheduled_jobs, and what became of it

poolVars == <<reddit_accounts, account_usernames, is_loaded, loads, lastLoad>>
libVars == <<sched_jobs>>
callerVars == <<cpc, c_job, c_id, c_new, c_wasLive>>
workerVars == <<wpc, w_queue, w_new, wakeAt, tickStart, tickSeen>>
histVars == <<calls, returned, invoked, fired, cancelCalled, raced, cancelLog, cancels,
              cancelledPending>>
submitVars == <<lastSubmit>>
callVars == <<lastVerify, lastComment>>
vars == <<reddit_accounts, account_usernames, is_loaded, loads, lastLoad, sched_jobs,
          scheduled_jobs, running, threads, now, cpc, c_job, c_id, c_new, c_wasLive,
          wpc, w_queue, w_new, wakeAt, tickStart, tickSeen,
          calls, returned, invoked, fired, cancelCalled, raced, cancelLog, cancels,
          cancelledPending, lastSubmit, lastVerify, lastComment, outcomes, snap>>

\* ------------------------------------------------------------------ strings
Space == " "

RECURSIVE LStrip(_)
LStrip(s) == IF s # <<>> /\ Head(s) = Space THEN LStrip(Tail(s)) ELSE s

RECURSIVE RStrip(_)
RStrip(s) ==
    IF s # <<>> /\ s[Len(s)] = Space THEN RStrip(SubSeq(s, 1, Len(s) - 1)) ELSE s

\* str.strip()
Strip(s) == RStrip(LStrip(s))

\* `"/comments/" in post_url`, a URL being the sequence of its "/"-separated segments:
\* the marker is a segment "comments" with a "/" on both sides
MarkerAt(u, i) == i > 1 /\ i < Len(u) /\ u[i] = "comments"
HasMarker(u) == \E i \in 1..Len(u) : MarkerAt(u, i)

\* post_url.split("/comments/")[1].split("/")[0]
\* an id taken from the end of the URL
LastSegment(u) == u[Len(u)]

FirstMarker(u) == CHOOSE i \in 1..Len(u) : MarkerAt(u, i) /\ \A k \in 1..(i - 1) : ~MarkerAt(u, k)
PostIdOf(u) == u[FirstMarker(u) + 1]

\* ------------------------------------------------------------------ RedditCore: the pool
\* the value Python's None stands for where a session handle is expected
None == [user |-> "", load |-> 0]

Fields == {"client_id", "client_secret", "username", "password", "user_agent"}

\* a completeness test that accepts a config as soon as one field is set
SomeFieldSet(config) == \E f \in Fields : config[f] # ""

\* all(config.values()) / any(config.values()): "" is the absent (falsy) value
AllSet(config) == \A f \in Fields : config[f] # ""
AnySet(config) == \E f \in Fields : config[f] # ""

\* accounts[key] = config on an insertion-ordered dict held as a sequence of configs
\* keyed by their username: an existing key keeps its position and takes the new value
DictPut(accounts, config) ==
    IF \E i \in 1..Len(accounts) : accounts[i].username = config.username
    THEN [i \in 1..Len(accounts) |->
            IF accounts[i].username = config.username THEN config ELSE accounts[i]]
    ELSE Append(accounts, config)

\* the loop over the indexed slots of load_accounts_from_env
RECURSIVE ScanSlots(_, _, _)
ScanSlots(slots, i, accounts) ==
    IF i > Len(slots) THEN accounts
    ELSE ScanSlots(slots, i + 1,
                   IF AllSet(slots[i]) THEN DictPut(accounts, slots[i]) ELSE accounts)

\* a discovery that adds the legacy slot whatever the indexed slots gave
LegacyAlways(env) ==
    LET accounts == ScanSlots(env.slots, 1, <<>>)
    IN  IF AllSet(env.legacy) THEN DictPut(accounts, env.legacy) ELSE accounts

\* load_accounts_from_env: the indexed slots, else the legacy slot
load_accounts_from_env(env) ==
    LET accounts == ScanSlots(env.slots, 1, <<>>)
    IN  IF accounts = <<>>
        THEN (IF AllSet(env.legacy) THEN <<env.legacy>> ELSE <<>>)
        ELSE accounts

\* a load loop without the test of user.name: a user with an empty name is loaded too
RECURSIVE LoadLoopAnyName(_, _, _, _, _)
LoadLoopAnyName(cfgs, i, outcome, n, st) ==
    IF i > Len(cfgs) THEN st
    ELSE LET username == cfgs[i].username
             client == [user |-> username, load |-> n]
         IN  LoadLoopAnyName(cfgs, i + 1, outcome, n,
                IF outcome[username] \in {"ok", "noname"}
                THEN [st EXCEPT
                        !.reddit_accounts =
                            [u \in (DOMAIN st.reddit_accounts) \cup {username} |->
                                IF u = username THEN client ELSE st.reddit_accounts[u]],
                        !.account_usernames = Append(st.account_usernames, username),
                        !.loaded_accounts =
                            Append(st.loaded_accounts,
                                   [id |-> st.success_count + 1, username |-> username]),
                        !.success_count = st.success_count + 1]
                ELSE [st EXCEPT !.errors = Append(st.errors, username)])

\* the for loop of load_accounts over env_accounts, from position i, on the state st;
\* outcome[username] is what praw.Reddit(...).user.me() does for that account:
\* "ok" (a named user), "raise" (an exception), "noname" (a user with an empty name)
RECURSIVE LoadLoop(_, _, _, _, _)
LoadLoop(cfgs, i, outcome, n, st) ==
    IF i > Len(cfgs) THEN st
    ELSE LET username == cfgs[i].username
             client == [user |-> username, load |-> n]
         IN  LoadLoop(cfgs, i + 1, outcome, n,
                CASE outcome[username] = "ok" ->
                        [st EXCEPT
                            !.reddit_accounts =
                                [u \in (DOMAIN st.reddit_accounts) \cup {username} |->
                                    IF u = username THEN client ELSE st.reddit_accounts[u]],
                            !.account_usernames = Append(st.account_usernames, username),
                            !.loaded_accounts =
                                Append(st.loaded_accounts,
                                       [id |-> st.success_count + 1, username |-> username]),
                            !.success_count = st.success_count + 1]
                  [] outcome[username] = "raise" ->
                        [st EXCEPT !.errors = Append(st.errors, username)]
                  [] OTHER -> st)

\* get_reddit_client over a pool state
ClientOf(loaded, usernames, accounts, account_id) ==
    IF ~loaded \/ account_id < 1 \/ account_id > Len(usernames)
    THEN None
    ELSE IF usernames[account_id] \in DOMAIN accounts
         THEN accounts[usernames[account_id]]
         ELSE None

\* a lookup that ignores the ordinal it is given
GetFirstClient(account_id) ==
    ClientOf(is_loaded, account_usernames, reddit_accounts, 1)

\* get_reddit_client, lines 365-371, on the pool as it is when the call is made
get_reddit_client(account_id) ==
    ClientOf(is_loaded, account_usernames, reddit_accounts, account_id)

\* get_account_username; "" stands for None
get_account_username(account_id) ==
    IF ~is_loaded \/ account_id < 1 \/ account_id > Len(account_usernames)
    THEN ""
    ELSE account_usernames[account_id]

\* load_accounts, one whole call
\* lastLoad also keeps the call's inputs: env (what the slots held), outcome (what
\* the platform did per account), and found (what load_accounts_from_env returned)
NoEnv == [slots |-> <<>>, legacy |-> [f \in Fields |-> ""]]
NoLoad == [success |-> FALSE, total_accounts |-> 0, accounts |-> <<>>,
           errors |-> <<>>, discovered |-> <<>>,
           env |-> NoEnv, found |-> <<>>, outcome |-> <<>>]

LoadAccounts(env, outcome) ==
    LET env_accounts == load_accounts_from_env(env)
        st0 == [reddit_accounts |-> reddit_accounts,
                account_usernames |-> account_usernames,
                loaded_accounts |-> <<>>, errors |-> <<>>, success_count |-> 0]
        st == LoadLoop(env_accounts, 1, outcome, loads + 1, st0)
        discovered == [i \in 1..Len(env_accounts) |-> env_accounts[i].username]
    IN  /\ cpc = "idle"
        /\ loads' = loads + 1
        /\ IF env_accounts = <<>>
           THEN /\ UNCHANGED <<reddit_accounts, account_usernames, is_loaded>>
                /\ lastLoad' = [NoLoad EXCEPT !.env = env, !.outcome = outcome]
           ELSE /\ reddit_accounts' = st.reddit_accounts
                /\ account_usernames' = st.account_usernames
                /\ is_loaded' = (IF st.success_count = 0 THEN is_loaded ELSE TRUE)
                /\ lastLoad' = [success |-> st.success_count # 0,
                                total_accounts |-> st.success_count,
                                accounts |-> st.loaded_accounts,
                                errors |-> st.errors,
                                discovered |-> discovered,
                                env |-> env, found |-> env_accounts,
                                outcome |-> outcome]
        /\ UNCHANGED <<sched_jobs, scheduled_jobs, running, threads, now>>
        /\ UNCHANGED callerVars
        /\ UNCHANGED workerVars
        /\ UNCHANGED histVars
        /\ UNCHANGED submitVars
        /\ UNCHANGED callVars
        /\ UNCHANGED <<outcomes, snap>>

\* ------------------------------------------------------------------ the comment path
\* post_scheduled_comment: which return it takes; "posted" is the one that reaches
\* submission.reply(comment_text), the platform's comment capability
post_scheduled_comment(post_url, comment_text, account_id) ==
    IF Strip(comment_text) = <<>> THEN "EmptyComment"
    ELSE IF get_reddit_client(account_id) = None THEN "InvalidOrdinal"
    ELSE IF ~HasMarker(post_url) THEN "InvalidUrl"
    ELSE "posted"

\* ------------------------------------------------------------------ post_content
\* A request is post_data, the dict post_content reads with .get: a string field is ""
\* when the key is absent, None or empty (all falsy); account_id is AbsentId when the
\* key is absent or None.  The posting options (flair_id, flair_text, nsfw, spoiler,
\* send_replies) are passed through to the platform and decide no branch.
AbsentId == 0 - 1

\* truthiness of account_id in all([account_id, subreddit_name, title])
TruthyId(account_id) == account_id # AbsentId /\ account_id # 0

\* a content count that leaves image_path out
ContentCountNoImage(body, url, image_path) ==
    (IF body # "" THEN 1 ELSE 0) + (IF url # "" THEN 1 ELSE 0)

\* sum(content_types)
ContentCount(body, url, image_path) ==
    (IF body # "" THEN 1 ELSE 0) + (IF url # "" THEN 1 ELSE 0)
        + (IF image_path # "" THEN 1 ELSE 0)

\* a file test that accepts every path
AnyPathIsFile(fs, image_path) == TRUE

\* os.path.isfile(image_path), fs being the set of paths of existing files
os_path_isfile(fs, image_path) == image_path \in fs

\* a dispatch whose last branch is the link post
PostTypeElseLink(body, url, image_path) ==
    IF image_path # "" THEN "image"
    ELSE IF body # "" THEN "text"
    ELSE "link"

\* the branch of the if / elif / else that submits
PostType(body, url, image_path) ==
    IF image_path # "" THEN "image"
    ELSE IF url # "" /\ body = "" THEN "link"
    ELSE "text"

\* What the platform does in the submission call: Ok, or an exception e with its class,
\* its items (RedditAPIException.items: the error_type of each) and its message.
\* Forbidden, TooLarge, NotFound, Redirect are prawcore.exceptions classes,
\* RequestException is prawcore's transport failure, InvalidFlairTemplateID and
\* RedditAPIException are praw.exceptions classes, "Exception" is any other class;
\* none of these classes derives from another one named in the except clauses.
Ok == [type |-> "ok", items |-> <<>>, msg |-> ""]

\* a scan that looks at the item at position i only
FirstItemInvalidFlair(items, i) ==
    i <= Len(items) /\ items[i] = "INVALID_FLAIR_TEMPLATE_ID"

\* the for loop over e.items, from position i: an item tagged INVALID_FLAIR_TEMPLATE_ID
RECURSIVE HasInvalidFlairItem(_, _)
HasInvalidFlairItem(items, i) ==
    IF i > Len(items) THEN FALSE
    ELSE IF items[i] = "INVALID_FLAIR_TEMPLATE_ID" THEN TRUE
    ELSE HasInvalidFlairItem(items, i + 1)

\* a result of post_content: error names the return taken ("" on success), message is
\* the str(e) the result carries, raised is the class of an exception that leaves
\* post_content ("" when it returns), log is the sequence of calls made on the platform
\* (net: the call sends a request; reddit.subreddit(name) only builds a lazy handle)
Result(success, error, message, post_type, raised, log) ==
    [success |-> success, error |-> error, message |-> message,
     post_type |-> post_type, raised |-> raised, log |-> log]

Failure(error, message, log) == Result(FALSE, error, message, "", "", log)

\* the except clauses of post_content, for the exception e, after the calls in log
PostContentExcept(e, log) ==
    CASE e.type = "Forbidden" -> Failure("Forbidden", e.msg, log)
      [] e.type = "TooLarge" -> Failure("PayloadTooLarge", e.msg, log)
      [] e.type = "InvalidFlairTemplateID" -> Failure("InvalidFlair", e.msg, log)
      [] e.type = "RedditAPIException" ->
            IF HasInvalidFlairItem(e.items, 1)
            THEN Failure("InvalidFlair", "", log)
            \* a bare raise inside an except clause leaves the try statement: the
            \* `except Exception` clause below it does not catch it
            ELSE Result(FALSE, "", "", "", e.type, log)
      [] OTHER -> Failure("Unclassified", e.msg, log)

\* post_content(post_data), with the files that exist and what the platform does
post_content(req, fs, plat) ==
    IF ~(TruthyId(req.account_id) /\ req.subreddit_name # "" /\ req.title # "")
    THEN Failure("MissingField", "", <<>>)
    ELSE IF get_reddit_client(req.account_id) = None
    THEN Failure("InvalidOrdinal", "", <<>>)
    ELSE IF ContentCount(req.body, req.url, req.image_path) > 1
    THEN Failure("AmbiguousContentKind", "", <<>>)
    ELSE
        LET subreddit == [op |-> "subreddit", arg |-> req.subreddit_name, net |-> FALSE]
            post_type == PostType(req.body, req.url, req.image_path)
            call == CASE post_type = "image" ->
                            [op |-> "submit_image", arg |-> req.image_path, net |-> TRUE]
                      [] post_type = "link" ->
                            [op |-> "submit_url", arg |-> req.url, net |-> TRUE]
                      [] OTHER ->
                            [op |-> "submit_selftext", arg |-> req.body, net |-> TRUE]
            log == <<subreddit, call>>
        IN  IF post_type = "image" /\ ~os_path_isfile(fs, req.image_path)
            THEN Failure("MissingAsset", "", <<subreddit>>)
            ELSE IF plat = Ok
            THEN Result(TRUE, "", "", post_type, "", log)
            ELSE PostContentExcept(plat, log)

NoRequest == [account_id |-> AbsentId, subreddit_name |-> "", title |-> "",
              body |-> "", url |-> "", image_path |-> ""]
NoSubmit == [called |-> FALSE, req |-> NoRequest, fs |-> {}, plat |-> Ok,
             ready |-> FALSE, n_accounts |-> 0,
             result |-> Failure("", "", <<>>)]

\* one whole call of post_content; it changes nothing of the program's state
\* a post_content that marks the pool not loaded when it returns
PostContentUnloads(req, fs, plat) ==
    /\ cpc = "idle"
    /\ lastSubmit' = [called |-> TRUE, req |-> req, fs |-> fs, plat |-> plat,
                      ready |-> is_loaded, n_accounts |-> Len(account_usernames),
                      result |-> post_content(req, fs, plat)]
    /\ is_loaded' = FALSE
    /\ UNCHANGED <<reddit_accounts, account_usernames, loads, lastLoad>>
    /\ UNCHANGED <<sched_jobs, scheduled_jobs, running, threads, now>>
    /\ UNCHANGED callerVars
    /\ UNCHANGED workerVars
    /\ UNCHANGED histVars
    /\ UNCHANGED callVars
    /\ UNCHANGED <<outcomes, snap>>

PostContent(req, fs, plat) ==
    /\ cpc = "idle"
    /\ lastSubmit' = [called |-> TRUE, req |-> req, fs |-> fs, plat |-> plat,
                      ready |-> is_loaded, n_accounts |-> Len(account_usernames),
                      result |-> post_content(req, fs, plat)]
    /\ UNCHANGED <<sched_jobs, scheduled_jobs, running, threads, now>>
    /\ UNCHANGED poolVars
    /\ UNCHANGED callerVars
    /\ UNCHANGED workerVars
    /\ UNCHANGED histVars
    /\ UNCHANGED callVars
    /\ UNCHANGED <<outcomes, snap>>

\* ------------------------------------------------------------------ post_scheduled_comment, verify_subreddit
\* a comment path that sends the shortened text of the job record
PostScheduledCommentShortened(post_url, comment_text, account_id, plat) ==
    LET r == post_scheduled_comment(post_url, comment_text, account_id)
        client == get_reddit_client(account_id)
    IN  IF r # "posted" THEN Failure(r, "", <<>>)
        ELSE LET log == <<[op |-> "submission", arg |-> PostIdOf(post_url),
                           net |-> FALSE, client |-> client],
                          [op |-> "reply",
                           arg |-> IF Len(comment_text) > 50
                                   THEN SubSeq(comment_text, 1, 50) \o <<".", ".", ".">>
                                   ELSE comment_text,
                           net |-> TRUE, client |-> client]>>
             IN  IF plat = Ok THEN Result(TRUE, "", "", "comment", "", log)
                 ELSE Failure("Unclassified", plat.msg, log)

\* a comment path without its except clause: what submission.reply raises leaves it
PostScheduledCommentRaises(post_url, comment_text, account_id, plat) ==
    LET r == post_scheduled_comment(post_url, comment_text, account_id)
        client == get_reddit_client(account_id)
    IN  IF r # "posted" THEN Failure(r, "", <<>>)
        ELSE LET log == <<[op |-> "submission", arg |-> PostIdOf(post_url),
                           net |-> FALSE, client |-> client],
                          [op |-> "reply", arg |-> comment_text,
                           net |-> TRUE, client |-> client]>>
             IN  IF plat = Ok THEN Result(TRUE, "", "", "comment", "", log)
                 ELSE Result(FALSE, "", "", "", plat.type, log)

\* post_scheduled_comment with what the platform does in submission.reply:
\* reddit_client.submission(id=post_id) builds a lazy handle, submission.reply sends
\* the comment; the one except clause returns every exception as "Failed to post
\* comment: ..." (Unclassified, with the original message)
PostScheduledCommentResult(post_url, comment_text, account_id, plat) ==
    LET r == post_scheduled_comment(post_url, comment_text, account_id)
        client == get_reddit_client(account_id)
    IN  IF r # "posted" THEN Failure(r, "", <<>>)
        ELSE LET log == <<[op |-> "submission", arg |-> PostIdOf(post_url),
                           net |-> FALSE, client |-> client],
                          [op |-> "reply", arg |-> comment_text,
                           net |-> TRUE, client |-> client]>>
             IN  IF plat = Ok THEN Result(TRUE, "", "", "comment", "", log)
                 ELSE Failure("Unclassified", plat.msg, log)

\* op is the method called; post_url is its target, a post URL or a comment id
NoComment == [called |-> FALSE, op |-> "", post_url |-> <<>>, comment_text |-> <<>>,
              account_id |-> 0, plat |-> Ok, result |-> Failure("", "", <<>>)]

\* one whole direct call of post_scheduled_comment
PostScheduledComment(post_url, comment_text, account_id, plat) ==
    /\ cpc = "idle"
    /\ lastComment' = [called |-> TRUE, op |-> "post_scheduled_comment",
                       post_url |-> post_url,
                       comment_text |-> comment_text, account_id |-> account_id,
                       plat |-> plat,
                       result |-> PostScheduledCommentResult(post_url, comment_text,
                                                             account_id, plat)]
    /\ UNCHANGED <<sched_jobs, scheduled_jobs, running, threads, now>>
    /\ UNCHANGED poolVars
    /\ UNCHANGED callerVars
    /\ UNCHANGED workerVars
    /\ UNCHANGED histVars
    /\ UNCHANGED submitVars
    /\ UNCHANGED <<lastVerify, outcomes, snap>>

\* reply_to_comment: the guards of lines 577-588, then reddit_client.comment(id=...)
\* (a lazy handle) and comment.reply(reply_text); Forbidden has its own except
\* clause, every other exception is "Failed to post reply: ..."
reply_to_comment(comment_id, reply_text, account_id, plat) ==
    LET client == get_reddit_client(account_id)
        log == <<[op |-> "comment", arg |-> comment_id, net |-> FALSE, client |-> client],
                 [op |-> "reply", arg |-> reply_text, net |-> TRUE, client |-> client]>>
    IN  IF Strip(reply_text) = <<>> THEN Failure("EmptyComment", "", <<>>)
        ELSE IF client = None THEN Failure("InvalidOrdinal", "", <<>>)
        ELSE IF plat = Ok THEN Result(TRUE, "", "", "reply", "", log)
        ELSE IF plat.type = "Forbidden" THEN Failure("Forbidden", "", log)
        ELSE Failure("Unclassified", plat.msg, log)

\* one whole call of reply_to_comment
ReplyToComment(comment_id, reply_text, account_id, plat) ==
    /\ cpc = "idle"
    /\ lastComment' = [called |-> TRUE, op |-> "reply_to_comment",
                       post_url |-> comment_id,
                       comment_text |-> reply_text, account_id |-> account_id,
                       plat |-> plat,
                       result |-> reply_to_comment(comment_id, reply_text,
                                                   account_id, plat)]
    /\ UNCHANGED <<sched_jobs, scheduled_jobs, running, threads, now>>
    /\ UNCHANGED poolVars
    /\ UNCHANGED callerVars
    /\ UNCHANGED workerVars
    /\ UNCHANGED histVars
    /\ UNCHANGED submitVars
    /\ UNCHANGED <<lastVerify, outcomes, snap>>

\* the except clauses of verify_subreddit's outer try (lines 419-424)
VerifyExcept(e, log) ==
    CASE e.type \in {"Redirect", "NotFound"} -> Failure("NotFound", "", log)
      [] e.type = "Forbidden" -> Failure("RestrictedAccess", "", log)
      [] OTHER -> Failure("Unclassified", e.msg, log)

\* verify_subreddit; the platform raises e (or nothing, Ok) at the call named by at:
\* "subreddit", reddit_client.subreddit(name) of line 392, or "attribute", the
\* attribute reads of lines 396-399 that fetch the subreddit from the platform.
\* The reads sit in a try of their own whose `except Exception` returns "could not
\* be accessed (may be private/restricted)" (RestrictedAccess) for every exception.
verify_subreddit(subreddit_name, account_id, plat, at) ==
    IF subreddit_name = "" THEN Failure("MissingField", "", <<>>)
    ELSE IF get_reddit_client(account_id) = None THEN Failure("InvalidOrdinal", "", <<>>)
    ELSE
        LET subreddit == [op |-> "subreddit", arg |-> subreddit_name, net |-> FALSE]
            fetch == [op |-> "fetch", arg |-> subreddit_name, net |-> TRUE]
        IN  IF plat = Ok THEN Result(TRUE, "", "", "subreddit", "", <<subreddit, fetch>>)
            ELSE IF at = "subreddit" THEN VerifyExcept(plat, <<subreddit>>)
            ELSE Failure("RestrictedAccess", "", <<subreddit, fetch>>)

NoVerify == [called |-> FALSE, subreddit_name |-> "", account_id |-> 0, plat |-> Ok,
             at |-> "", result |-> Failure("", "", <<>>)]

\* one whole call of verify_subreddit
VerifySubreddit(subreddit_name, account_id, plat, at) ==
    /\ cpc = "idle"
    /\ lastVerify' = [called |-> TRUE, subreddit_name |-> subreddit_name,
                      account_id |-> account_id, plat |-> plat, at |-> at,
                      result |-> verify_subreddit(subreddit_name, account_id, plat, at)]
    /\ UNCHANGED <<sched_jobs, scheduled_jobs, running, threads, now>>
    /\ UNCHANGED poolVars
    /\ UNCHANGED callerVars
    /\ UNCHANGED workerVars
    /\ UNCHANGED histVars
    /\ UNCHANGED submitVars
    /\ UNCHANGED <<lastComment, outcomes, snap>>

\* ------------------------------------------------------------------ the schedule package
\* What the calls of lines 809, 845 and 855 do in the `schedule` package:
\*   every().day.at("HH:MM").do(f).tag(t)  appends a job to schedule.jobs with
\*       next_run = the next HH:MM:00 after now;
\*   run_pending()  runs the jobs with next_run <= now, a sorted list it builds
\*       before it runs the first; after f returns, the job's next_run moves to
\*       the next HH:MM:00, and the job is removed only if f returned
\*       schedule.CancelJob (post_job returns None);
\*   clear(t)  removes the jobs tagged t and raises for no tag.
\* scheduled_time.strftime("%H:%M"): the minute of the day, the date and the seconds dropped
StrfHM(scheduled_time) == (scheduled_time % DayLen) \div MinuteLen

\* Job._schedule_next_run of an every().day.at(HH:MM) job evaluated at time t:
\* the first instant after t whose time of day is HH:MM:00
NextRun(at, t) ==
    LET today == (t \div DayLen) * DayLen + at * MinuteLen
    IN  IF today > t THEN today ELSE today + DayLen

\* sorted(job for job in self.jobs if job.should_run): by next_run, stable
RECURSIVE InsertJob(_, _)
InsertJob(sorted, j) ==
    IF sorted = <<>> THEN <<j>>
    ELSE IF j.next_run < Head(sorted).next_run THEN <<j>> \o sorted
    ELSE <<Head(sorted)>> \o InsertJob(Tail(sorted), j)

RECURSIVE SortJobs(_)
SortJobs(js) ==
    IF js = <<>> THEN <<>>
    ELSE InsertJob(SortJobs(SubSeq(js, 1, Len(js) - 1)), js[Len(js)])

Runnable(js, t) == SortJobs(SelectSeq(js, LAMBDA j : t >= j.next_run))

\* schedule.clear(tag)
ClearTag(js, tag) == SelectSeq(js, LAMBDA j : j.tag # tag)

\* Job.run's bookkeeping after job_func returned (None, so the job stays registered)
Reschedule(js, uid, t) ==
    [i \in 1..Len(js) |->
        IF js[i].uid = uid THEN [js[i] EXCEPT !.next_run = NextRun(js[i].at, t)] ELSE js[i]]

\* ------------------------------------------------------------------ CommentScheduler
\* f"comment_{len(self.scheduled_jobs)}_{int(scheduled_time.timestamp())}"
JobId(jobs, scheduled_time) == [n |-> Len(jobs), ts |-> scheduled_time]

\* [job for job in self.scheduled_jobs if job['id'] != job_id]
WithoutId(jobs, job_id) == SelectSeq(jobs, LAMBDA j : j.id # job_id)

\* comment_text[:50] + "..." if len(comment_text) > 50 else comment_text
PreviewLen == 50
Preview(comment_text) ==
    IF Len(comment_text) > PreviewLen
    THEN SubSeq(comment_text, 1, PreviewLen) \o <<".", ".", ".">>
    ELSE comment_text

NoId == [n |-> 0 - 1, ts |-> 0 - 1]
NoJob == [uid |-> 0, id |-> NoId, post_url |-> <<>>, comment_text |-> <<>>,
          account_id |-> 0, scheduled_time |-> 0, status |-> "none"]
NoCancel == [id |-> NoId, wasLive |-> FALSE, ret |-> FALSE, done |-> FALSE]

Uids == 1..Len(calls)
LiveUids == {scheduled_jobs[i].uid : i \in 1..Len(scheduled_jobs)}
TagUids == {sched_jobs[i].uid : i \in 1..Len(sched_jobs)}

\* schedule_comment, lines 800-809: the id, the closure and the trigger registration
ScheduleRegister(post_url, comment_text, account_id, scheduled_time) ==
    LET job_id == JobId(scheduled_jobs, scheduled_time)
        uid == Len(calls) + 1
    IN  /\ cpc = "idle"
        /\ Len(calls) < MaxSched
        /\ sched_jobs' = Append(sched_jobs,
                [uid |-> uid, tag |-> job_id, at |-> StrfHM(scheduled_time),
                 next_run |-> NextRun(StrfHM(scheduled_time), now),
                 post_url |-> post_url, comment_text |-> comment_text,
                 account_id |-> account_id])
        /\ c_job' = [uid |-> uid, id |-> job_id, post_url |-> post_url,
                     comment_text |-> Preview(comment_text), account_id |-> account_id,
                     scheduled_time |-> scheduled_time, status |-> "pending"]
        /\ cpc' = "sched_add"
        /\ calls' = Append(calls, [id |-> job_id, post_url |-> post_url,
                                   comment_text |-> comment_text,
                                   account_id |-> account_id,
                                   scheduled_time |-> scheduled_time])
        /\ returned' = Append(returned, FALSE)
        /\ invoked' = Append(invoked, <<>>)
        /\ fired' = Append(fired, 0)
        /\ cancelCalled' = Append(cancelCalled, FALSE)
        /\ raced' = Append(raced, FALSE)
        /\ UNCHANGED <<scheduled_jobs, running, threads, now, c_id, c_new, c_wasLive,
                       cancelLog, cancels, cancelledPending>>
        /\ UNCHANGED poolVars
        /\ UNCHANGED submitVars
        /\ UNCHANGED callVars
        /\ outcomes' = Append(outcomes, <<>>)
        /\ UNCHANGED snap
        /\ UNCHANGED workerVars

\* a schedule_comment that starts a worker thread at every call
ScheduleAppendAlwaysStart ==
    /\ cpc = "sched_add"
    /\ scheduled_jobs' = Append(scheduled_jobs, c_job)
    /\ running' = TRUE
    /\ threads' = threads + 1
    /\ wpc' = (IF running THEN wpc ELSE "sleep")
    /\ wakeAt' = (IF running THEN wakeAt ELSE now)
    /\ returned' = [returned EXCEPT ![c_job.uid] = TRUE]
    /\ cpc' = "idle"
    /\ c_job' = NoJob
    /\ UNCHANGED <<sched_jobs, now, c_id, c_new, c_wasLive, w_queue, w_new,
                   tickStart, tickSeen, calls, invoked, fired, cancelCalled, raced,
                   cancelLog, cancels, cancelledPending>>
    /\ UNCHANGED poolVars
    /\ UNCHANGED submitVars
    /\ UNCHANGED callVars
    \* list.append changes the list object in place: a caller still holding it sees the job
    /\ snap' = IF snap.aliased THEN [snap EXCEPT !.value = Append(@, c_job)] ELSE snap
    /\ UNCHANGED outcomes

\* schedule_comment, lines 811-830: the record, the implicit start, the return
ScheduleAppend ==
    /\ cpc = "sched_add"
    /\ scheduled_jobs' = Append(scheduled_jobs, c_job)
    /\ IF ~running
       THEN /\ running' = TRUE
            /\ threads' = threads + 1
            /\ wpc' = "sleep"
            /\ wakeAt' = now
       ELSE UNCHANGED <<running, threads, wpc, wakeAt>>
    /\ returned' = [returned EXCEPT ![c_job.uid] = TRUE]
    /\ cpc' = "idle"
    /\ c_job' = NoJob
    /\ UNCHANGED <<sched_jobs, now, c_id, c_new, c_wasLive, w_queue, w_new,
                   tickStart, tickSeen, calls, invoked, fired, cancelCalled, raced,
                   cancelLog, cancels, cancelledPending>>
    /\ UNCHANGED poolVars
    /\ UNCHANGED submitVars
    /\ UNCHANGED callVars
    \* list.append changes the list object in place: a caller still holding it sees the job
    /\ snap' = IF snap.aliased THEN [snap EXCEPT !.value = Append(@, c_job)] ELSE snap
    /\ UNCHANGED outcomes

\* cancel_job, line 855: schedule.clear(job_id)
CancelClear(job_id) ==
    /\ cpc = "idle"
    /\ cancels' = cancels + 1
    /\ cancelledPending' = cancelledPending \cup
            {u \in LiveUids : /\ calls[u].id = job_id
                              /\ fired[u] = 0
                              /\ \A i \in 1..Len(w_queue) : w_queue[i].uid # u}
    /\ sched_jobs' = ClearTag(sched_jobs, job_id)
    /\ c_id' = job_id
    /\ c_wasLive' = (\E i \in 1..Len(scheduled_jobs) :
                        scheduled_jobs[i].id = job_id /\ scheduled_jobs[i].status = "pending")
    /\ cpc' = "cancel_cleared"
    /\ cancelCalled' = [u \in Uids |-> cancelCalled[u] \/ calls[u].id = job_id]
    /\ raced' = [u \in Uids |->
                    raced[u] \/ (/\ wpc \in {"posted", "filtered"}
                                 /\ Head(w_queue).uid = u
                                 /\ calls[u].id = job_id)]
    /\ UNCHANGED <<scheduled_jobs, running, threads, now, c_job, c_new,
                   calls, returned, invoked, fired, cancelLog>>
    /\ UNCHANGED poolVars
    /\ UNCHANGED submitVars
    /\ UNCHANGED callVars
    /\ UNCHANGED <<outcomes, snap>>
    /\ UNCHANGED workerVars

\* cancel_job, line 856, right-hand side: the filtered copy of the list
CancelFilter ==
    /\ cpc = "cancel_cleared"
    /\ c_new' = WithoutId(scheduled_jobs, c_id)
    /\ cpc' = "cancel_filtered"
    /\ UNCHANGED <<sched_jobs, scheduled_jobs, running, threads, now, c_job, c_id, c_wasLive>>
    /\ UNCHANGED poolVars
    /\ UNCHANGED submitVars
    /\ UNCHANGED callVars
    /\ UNCHANGED <<outcomes, snap>>
    /\ UNCHANGED workerVars
    /\ UNCHANGED histVars

\* what cancel_job returns once line 856 has run: nothing in its try raises
CancelReturn == TRUE

\* cancel_job, lines 856-857: the assignment and the return
CancelStore ==
    /\ cpc = "cancel_filtered"
    /\ scheduled_jobs' = c_new
    /\ cancelLog' = [id |-> c_id, wasLive |-> c_wasLive, ret |-> CancelReturn, done |-> TRUE]
    /\ cpc' = "idle"
    /\ c_new' = <<>>
    /\ c_id' = NoId
    /\ c_wasLive' = FALSE
    /\ UNCHANGED <<sched_jobs, running, threads, now, c_job,
                   calls, returned, invoked, fired, cancelCalled, raced, cancels,
                   cancelledPending>>
    /\ UNCHANGED poolVars
    /\ UNCHANGED submitVars
    /\ UNCHANGED callVars
    \* the assignment binds self.scheduled_jobs to a new list object
    /\ snap' = [snap EXCEPT !.aliased = FALSE]
    /\ UNCHANGED outcomes
    /\ UNCHANGED workerVars

\* _run_scheduler, line 845: schedule.run_pending() collects the due jobs
WorkerTick ==
    /\ wpc = "sleep"
    /\ running
    /\ now >= wakeAt
    /\ tickStart' = now
    /\ tickSeen' = {u \in Uids : returned[u]}
    /\ LET due == Runnable(sched_jobs, now)
       IN  IF due = <<>>
           THEN /\ wakeAt' = now + SleepInterval
                /\ UNCHANGED <<wpc, w_queue>>
           ELSE /\ w_queue' = due
                /\ wpc' = "run"
                /\ UNCHANGED wakeAt
    /\ UNCHANGED <<sched_jobs, scheduled_jobs, running, threads, now, w_new>>
    /\ UNCHANGED poolVars
    /\ UNCHANGED submitVars
    /\ UNCHANGED callVars
    /\ UNCHANGED <<outcomes, snap>>
    /\ UNCHANGED callerVars
    /\ UNCHANGED histVars

\* post_job, lines 803-804: the comment path runs for the job at the head of the queue
WorkerPost(plat) ==
    /\ wpc = "run"
    /\ LET j == Head(w_queue)
           r == post_scheduled_comment(j.post_url, j.comment_text, j.account_id)
           res == PostScheduledCommentResult(j.post_url, j.comment_text, j.account_id, plat)
       IN  /\ invoked' = [invoked EXCEPT
                            ![j.uid] = IF r = "posted" THEN Append(@, now) ELSE @]
           /\ outcomes' = [outcomes EXCEPT
                            ![j.uid] = Append(@, [at |-> now, plat |-> plat,
                                                  is_loaded |-> is_loaded,
                                                  account_usernames |-> account_usernames,
                                                  reddit_accounts |-> reddit_accounts,
                                                  result |-> res])]
           /\ fired' = [fired EXCEPT ![j.uid] = @ + 1]
           /\ raced' = [raced EXCEPT
                            ![j.uid] = @ \/ (cpc \in {"cancel_cleared", "cancel_filtered"}
                                              /\ c_id = j.tag)]
           \* an exception that left post_scheduled_comment would leave post_job,
           \* run_pending and the loop of _run_scheduler, which has no try: the thread ends
           /\ wpc' = IF res.raised = "" THEN "posted" ELSE "dead"
    /\ UNCHANGED <<sched_jobs, scheduled_jobs, running, threads, now,
                   w_queue, w_new, wakeAt, tickStart, tickSeen,
                   calls, returned, cancelCalled, cancelLog, cancels, cancelledPending>>
    /\ UNCHANGED poolVars
    /\ UNCHANGED submitVars
    /\ UNCHANGED callVars
    /\ UNCHANGED snap
    /\ UNCHANGED callerVars

\* a post_job that keeps the record of the job it ran
WorkerFilterKeeps ==
    /\ wpc = "posted"
    /\ w_new' = scheduled_jobs
    /\ wpc' = "filtered"
    /\ UNCHANGED <<sched_jobs, scheduled_jobs, running, threads, now,
                   w_queue, wakeAt, tickStart, tickSeen>>
    /\ UNCHANGED poolVars
    /\ UNCHANGED submitVars
    /\ UNCHANGED callVars
    /\ UNCHANGED <<outcomes, snap>>
    /\ UNCHANGED callerVars
    /\ UNCHANGED histVars

\* post_job, line 806, right-hand side: the filtered copy of the list
WorkerFilter ==
    /\ wpc = "posted"
    /\ w_new' = WithoutId(scheduled_jobs, Head(w_queue).tag)
    /\ wpc' = "filtered"
    /\ UNCHANGED <<sched_jobs, scheduled_jobs, running, threads, now,
                   w_queue, wakeAt, tickStart, tickSeen>>
    /\ UNCHANGED poolVars
    /\ UNCHANGED submitVars
    /\ UNCHANGED callVars
    /\ UNCHANGED <<outcomes, snap>>
    /\ UNCHANGED callerVars
    /\ UNCHANGED histVars

\* post_job, line 806: the assignment; then Job.run reschedules the job for the next
\* day, run_pending goes on to the next due job, and after the last one the loop sleeps
WorkerStore ==
    /\ wpc = "filtered"
    /\ scheduled_jobs' = w_new
    /\ sched_jobs' = Reschedule(sched_jobs, Head(w_queue).uid, now)
    /\ w_queue' = Tail(w_queue)
    /\ w_new' = <<>>
    /\ IF Tail(w_queue) = <<>>
       THEN wpc' = "sleep" /\ wakeAt' = now + SleepInterval
       ELSE wpc' = "run" /\ UNCHANGED wakeAt
    /\ UNCHANGED <<running, threads, now, tickStart, tickSeen>>
    /\ UNCHANGED poolVars
    /\ UNCHANGED submitVars
    /\ UNCHANGED callVars
    \* the assignment binds self.scheduled_jobs to a new list object
    /\ snap' = [snap EXCEPT !.aliased = FALSE]
    /\ UNCHANGED outcomes
    /\ UNCHANGED callerVars
    /\ UNCHANGED histVars

\* What a caller holds after get_scheduled_jobs: value is the content of the list object
\* it was handed, aliased tells whether that object is still the one
\* self.scheduled_jobs names, expect is what the caller's own operations made of the
\* content it was handed, leaked tells whether the caller's change reached the live list
NoSnap == [taken |-> FALSE, aliased |-> FALSE, value |-> <<>>, expect |-> <<>>,
           leaked |-> FALSE]

\* get_scheduled_jobs: return self.scheduled_jobs, the list object itself
GetScheduledJobs ==
    /\ cpc = "idle"
    /\ snap' = [taken |-> TRUE, aliased |-> TRUE, value |-> scheduled_jobs,
                expect |-> scheduled_jobs, leaked |-> FALSE]
    /\ UNCHANGED <<sched_jobs, scheduled_jobs, running, threads, now>>
    /\ UNCHANGED poolVars
    /\ UNCHANGED callerVars
    /\ UNCHANGED workerVars
    /\ UNCHANGED histVars
    /\ UNCHANGED submitVars
    /\ UNCHANGED callVars
    /\ UNCHANGED outcomes

\* the caller removes the last element of the list it was handed (list.pop())
MutateReturned ==
    /\ cpc = "idle"
    /\ snap.taken
    /\ snap.value # <<>>
    /\ snap' = [snap EXCEPT !.value = SubSeq(@, 1, Len(@) - 1),
                            !.expect = SubSeq(@, 1, Len(@) - 1),
                            !.leaked = @ \/ snap.aliased]
    /\ scheduled_jobs' = IF snap.aliased
                         THEN SubSeq(snap.value, 1, Len(snap.value) - 1)
                         ELSE scheduled_jobs
    /\ UNCHANGED <<sched_jobs, running, threads, now>>
    /\ UNCHANGED poolVars
    /\ UNCHANGED callerVars
    /\ UNCHANGED workerVars
    /\ UNCHANGED histVars
    /\ UNCHANGED submitVars
    /\ UNCHANGED callVars
    /\ UNCHANGED outcomes

\* the clock: time passes while the worker sleeps, up to its wake-up time, and between
\* the caller's calls (a call of the caller takes no model time)
Advance ==
    /\ now < MaxTime
    /\ cpc = "idle"
    /\ wpc = "none" \/ (wpc = "sleep" /\ now < wakeAt)
    /\ now' = now + 1
    /\ UNCHANGED <<sched_jobs, scheduled_jobs, running, threads>>
    /\ UNCHANGED poolVars
    /\ UNCHANGED submitVars
    /\ UNCHANGED callVars
    /\ UNCHANGED <<outcomes, snap>>
    /\ UNCHANGED callerVars
    /\ UNCHANGED workerVars
    /\ UNCHANGED histVars

\* ------------------------------------------------------------------ inputs
Complete(u) == [client_id |-> "id", client_secret |-> "secret", username |-> u,
                password |-> "pw", user_agent |-> "agent"]
Partial(u) == [client_id |-> "id", client_secret |-> "", username |-> u,
               password |-> "pw", user_agent |-> "agent"]
Empty == [client_id |-> "", client_secret |-> "", username |-> "",
          password |-> "", user_agent |-> ""]
Users == {"u1", "u2"}
Configs == {Complete(u) : u \in Users} \cup {Partial("u1"), Empty}
Envs == [slots : [1..NumSlots -> Configs], legacy : Configs]
Outcomes == [Users -> {"ok", "raise", "noname"}]

\* the environment of the scheduler runs: one account, in slot 1
OneEnv == [slots |-> [i \in 1..NumSlots |-> IF i = 1 THEN Complete("u1") ELSE Empty],
           legacy |-> Empty]
OneOutcomes == [Users -> {"ok"}]
\* two accounts, in slots 1 and 2
TwoEnv == [slots |-> [i \in 1..NumSlots |-> IF i = 1 THEN Complete("u1")
                                             ELSE IF i = 2 THEN Complete("u2") ELSE Empty],
           legacy |-> Empty]

GoodUrl == <<"r", "comments", "abc">>
BadUrl == <<"r", "abc">>
Urls == {GoodUrl, BadUrl}
Texts == {<<>>, <<" ">>, <<"h", "i">>}
Ordinals == {1, 2}
GoodText == <<"h", "i">>
\* a text one character longer than the job record keeps
LongText == [i \in 1..(PreviewLen + 1) |-> "x"]
FireTimes == 0..MaxTime
\* the ids a caller passes to cancel_job: the ids issued so far, and one never issued
NeverIssued == [n |-> 0, ts |-> MaxTime + 1]
CancelIds == {calls[u].id : u \in Uids} \cup {NeverIssued}

\* post_content: requests, file systems and platform behaviours
Requests == [account_id : {AbsentId} \cup 0..(NumSlots + 1),
             subreddit_name : {"", "sub"}, title : {"", "t"},
             body : {"", "b"}, url : {"", "u"}, image_path : {"", "a.png"}]
FileSystems == {{}, {"a.png"}}
ItemTypes == {"INVALID_FLAIR_TEMPLATE_ID", "RATELIMIT"}
ItemSeqs == UNION {[1..n -> ItemTypes] : n \in 1..MaxItems}
ExcTypes == {"Forbidden", "TooLarge", "InvalidFlairTemplateID", "NotFound", "Redirect",
             "RequestException", "Exception"}
Raises == {[type |-> t, items |-> <<>>, msg |-> "m"] : t \in ExcTypes}
            \cup {[type |-> "RedditAPIException", items |-> its, msg |-> "m"] : its \in ItemSeqs}
Plats == {Ok} \cup Raises
\* a request for a text post that passes validation on a loaded pool
TextRequest == [account_id |-> 1, subreddit_name |-> "sub", title |-> "t",
                body |-> "b", url |-> "", image_path |-> ""]
\* verify_subreddit: names, ordinals and the call at which the platform raises
SubredditNames == {"", "sub"}
VerifyOrdinals == 0..NumSlots
RaisePoints == {"subreddit", "attribute"}

\* ------------------------------------------------------------------ specifications
Init ==
    /\ reddit_accounts = <<>>
    /\ account_usernames = <<>>
    /\ is_loaded = FALSE
    /\ sched_jobs = <<>>
    /\ scheduled_jobs = <<>>
    /\ running = FALSE
    /\ threads = 0
    /\ now = 0
    /\ cpc = "idle"
    /\ c_job = NoJob
    /\ c_id = NoId
    /\ c_new = <<>>
    /\ c_wasLive = FALSE
    /\ wpc = "none"
    /\ w_queue = <<>>
    /\ w_new = <<>>
    /\ wakeAt = 0
    /\ loads = 0
    /\ lastLoad = NoLoad
    /\ calls = <<>>
    /\ returned = <<>>
    /\ invoked = <<>>
    /\ fired = <<>>
    /\ cancelCalled = <<>>
    /\ raced = <<>>
    /\ cancelLog = NoCancel
    /\ cancels = 0
    /\ cancelledPending = {}
    /\ tickStart = 0
    /\ tickSeen = {}
    /\ lastSubmit = NoSubmit
    /\ lastVerify = NoVerify
    /\ lastComment = NoComment
    /\ outcomes = <<>>
    /\ snap = NoSnap

\* the pool alone
PoolNext == \E env \in Envs, outcome \in Outcomes : loads < MaxLoads /\ LoadAccounts(env, outcome)
PoolSpec == Init /\ [][PoolNext]_vars

\* reloads over environments whose indexed slots are complete or empty
SlotEnvs == [slots : [1..NumSlots -> {Complete(u) : u \in Users} \cup {Empty}],
             legacy : {Empty}]
ReloadNext ==
    \E env \in SlotEnvs, outcome \in Outcomes : loads < MaxLoads /\ LoadAccounts(env, outcome)
ReloadSpec == Init /\ [][ReloadNext]_vars

\* one discovery and load from the constructed state, over every environment
DiscoverNext == \E env \in Envs, outcome \in Outcomes : loads = 0 /\ LoadAccounts(env, outcome)
DiscoverSpec == Init /\ [][DiscoverNext]_vars

\* post_content, called once on the pool one load left (or on the constructed pool)
SubmitNext ==
    \/ \E env \in {OneEnv, TwoEnv}, outcome \in OneOutcomes :
            loads = 0 /\ ~lastSubmit.called /\ LoadAccounts(env, outcome)
    \/ \E req \in Requests, fs \in FileSystems, plat \in Plats :
            ~lastSubmit.called /\ PostContent(req, fs, plat)
SubmitSpec == Init /\ [][SubmitNext]_vars

\* verify_subreddit and post_content, each called once, on the pool one load left
VerifyNext ==
    \/ \E outcome \in OneOutcomes :
            loads = 0 /\ ~lastVerify.called /\ ~lastSubmit.called
                /\ LoadAccounts(OneEnv, outcome)
    \/ \E name \in SubredditNames, k \in VerifyOrdinals, plat \in Plats, at \in RaisePoints :
            ~lastVerify.called /\ VerifySubreddit(name, k, plat, at)
    \/ \E plat \in Plats : ~lastSubmit.called /\ PostContent(TextRequest, {}, plat)
VerifySpec == Init /\ [][VerifyNext]_vars

\* post_content and post_scheduled_comment, each called once with what the platform raises
ClassifyNext ==
    \/ \E outcome \in OneOutcomes :
            loads = 0 /\ ~lastComment.called /\ ~lastSubmit.called
                /\ LoadAccounts(OneEnv, outcome)
    \/ \E plat \in Plats : ~lastSubmit.called /\ PostContent(TextRequest, {}, plat)
    \/ \E plat \in Plats :
            ~lastComment.called /\ PostScheduledComment(GoodUrl, GoodText, 1, plat)
ClassifySpec == Init /\ [][ClassifyNext]_vars

\* the scheduler, on a pool of one account
Next ==
    \/ \E outcome \in OneOutcomes : loads < 1 /\ LoadAccounts(OneEnv, outcome)
    \/ \E t \in FireTimes : ScheduleRegister(GoodUrl, GoodText, 1, t)
    \/ ScheduleAppend
    \/ \E id \in CancelIds : cancels < MaxCancel /\ CancelClear(id)
    \/ CancelFilter
    \/ CancelStore
    \/ WorkerTick
    \/ WorkerPost(Ok)
    \/ WorkerFilter
    \/ WorkerStore
    \/ Advance
Spec == Init /\ [][Next]_vars

\* the scheduler on varied job inputs, without cancellation
InputFireTimes == {MinuteLen}
\* what the platform does when a job's comment is sent: accept it, or refuse it
Refused == [type |-> "Forbidden", items |-> <<>>, msg |-> "m"]
InputPlats == {Ok, Refused}
InputNext ==
    \/ \E outcome \in OneOutcomes : loads < 1 /\ LoadAccounts(OneEnv, outcome)
    \/ \E url \in Urls, text \in Texts, k \in Ordinals, t \in InputFireTimes :
            ScheduleRegister(url, text, k, t)
    \/ ScheduleAppend
    \/ WorkerTick
    \/ \E plat \in InputPlats : WorkerPost(plat)
    \/ WorkerFilter
    \/ WorkerStore
    \/ Advance
InputSpec == Init /\ [][InputNext]_vars

\* the scheduler on short and long texts, without cancellation
TextNext ==
    \/ \E outcome \in OneOutcomes : loads = 0 /\ LoadAccounts(OneEnv, outcome)
    \/ \E text \in {GoodText, LongText}, t \in InputFireTimes :
            ScheduleRegister(GoodUrl, text, 1, t)
    \/ ScheduleAppend
    \/ WorkerTick
    \/ WorkerPost(Ok)
    \/ WorkerFilter
    \/ WorkerStore
    \/ Advance
TextSpec == Init /\ [][TextNext]_vars

\* the scheduler with a caller that reads the job list and keeps what it was handed
SnapNext ==
    \/ \E outcome \in OneOutcomes : loads = 0 /\ LoadAccounts(OneEnv, outcome)
    \/ \E t \in InputFireTimes : ScheduleRegister(GoodUrl, GoodText, 1, t)
    \/ ScheduleAppend
    \/ \E id \in CancelIds : cancels < MaxCancel /\ CancelClear(id)
    \/ CancelFilter
    \/ CancelStore
    \/ GetScheduledJobs
    \/ MutateReturned
    \/ WorkerTick
    \/ WorkerPost(Ok)
    \/ WorkerFilter
    \/ WorkerStore
    \/ Advance
SnapSpec == Init /\ [][SnapNext]_vars

\* jobs on either ordinal, fired by the worker, with the pool loaded and reloaded
\* at any moment before, between and after
FireNext ==
    \/ \E outcome \in OneOutcomes : loads < MaxLoads /\ LoadAccounts(OneEnv, outcome)
    \/ \E k \in Ordinals, t \in InputFireTimes : ScheduleRegister(GoodUrl, GoodText, k, t)
    \/ ScheduleAppend
    \/ WorkerTick
    \/ WorkerPost(Ok)
    \/ WorkerFilter
    \/ WorkerStore
    \/ Advance
FireSpec == Init /\ [][FireNext]_vars

\* every operation of the core on one pool.  The caller makes one call each of
\* post_content, verify_subreddit, a comment or a reply, get_scheduled_jobs,
\* schedule_comment and cancel_job, in that order; loads and reloads come at any
\* moment between them, and the worker fires the job while the caller goes on
CommentId == <<"c", "1">>
StableNext ==
    \/ \E outcome \in OneOutcomes : loads < MaxLoads /\ LoadAccounts(OneEnv, outcome)
    \/ ~lastSubmit.called /\ PostContent(TextRequest, {}, Ok)
    \/ lastSubmit.called /\ ~lastVerify.called /\ VerifySubreddit("sub", 1, Ok, "subreddit")
    \/ lastVerify.called /\ ~lastComment.called
            /\ PostScheduledComment(GoodUrl, GoodText, 1, Ok)
    \/ lastVerify.called /\ ~lastComment.called
            /\ ReplyToComment(CommentId, GoodText, 1, Ok)
    \/ lastComment.called /\ ~snap.taken /\ GetScheduledJobs
    \/ \E t \in InputFireTimes :
            snap.taken /\ calls = <<>> /\ ScheduleRegister(GoodUrl, GoodText, 1, t)
    \/ ScheduleAppend
    \/ \E id \in CancelIds : calls # <<>> /\ cancels = 0 /\ CancelClear(id)
    \/ CancelFilter
    \/ CancelStore
    \/ WorkerTick
    \/ WorkerPost(Ok)
    \/ WorkerFilter
    \/ WorkerStore
    \/ Advance
StableSpec == Init /\ [][StableNext]_vars

\* one discovery and load over indexed slots that may carry the same username with
\* different credentials
Rotated(u) == [client_id |-> "id", client_secret |-> "secret", username |-> u,
               password |-> "pw2", user_agent |-> "agent"]
CollideEnvs == [slots : [1..NumSlots -> {Complete("u1"), Rotated("u1"), Complete("u2"), Empty}],
                legacy : {Empty}]
CollideNext ==
    \E env \in CollideEnvs, outcome \in Outcomes : loads = 0 /\ LoadAccounts(env, outcome)
CollideSpec == Init /\ [][CollideNext]_vars

\* one direct call of post_scheduled_comment or of reply_to_comment, on the constructed
\* pool or on the pool one load left
LongUrl == <<"r", "comments", "abc", "title">>
EndUrl == <<"r", "comments">>
CommentUrls == Urls \cup {LongUrl, EndUrl}
CommentNext ==
    \/ \E outcome \in OneOutcomes :
            loads = 0 /\ ~lastComment.called /\ LoadAccounts(OneEnv, outcome)
    \/ \E url \in CommentUrls, text \in Texts, k \in VerifyOrdinals, plat \in InputPlats :
            ~lastComment.called /\ PostScheduledComment(url, text, k, plat)
    \/ \E text \in Texts, k \in VerifyOrdinals, plat \in InputPlats :
            ~lastComment.called /\ ReplyToComment(CommentId, text, k, plat)
CommentSpec == Init /\ [][CommentNext]_vars

\* the scheduler on jobs whose URL or ordinal may be unusable, without cancellation
AcceptNext ==
    \/ \E outcome \in OneOutcomes : loads = 0 /\ LoadAccounts(OneEnv, outcome)
    \/ \E url \in Urls, k \in Ordinals, t \in InputFireTimes :
            ScheduleRegister(url, GoodText, k, t)
    \/ ScheduleAppend
    \/ WorkerTick
    \/ WorkerPost(Ok)
    \/ WorkerFilter
    \/ WorkerStore
    \/ Advance
AcceptSpec == Init /\ [][AcceptNext]_vars

\* the scheduler on jobs that fail when they fire: a URL without the marker, or a
\* platform that raises in submission.reply
FailNext ==
    \/ \E outcome \in OneOutcomes : loads = 0 /\ LoadAccounts(OneEnv, outcome)
    \/ \E url \in Urls, t \in InputFireTimes : ScheduleRegister(url, GoodText, 1, t)
    \/ ScheduleAppend
    \/ WorkerTick
    \/ \E plat \in InputPlats : WorkerPost(plat)
    \/ WorkerFilter
    \/ WorkerStore
    \/ Advance
FailSpec == Init /\ [][FailNext]_vars

\* ------------------------------------------------------------------ the claims
\* neither thread is inside a call
Quiescent == cpc = "idle" /\ wpc \in {"none", "sleep"}

\* C1: a job that is never cancelled has the comment capability invoked for it at most
\* once, however long the worker keeps running (the same clock time recurs the next day).
C1_AtMostOnce ==
    \A u \in Uids : ~cancelCalled[u] => Len(invoked[u]) <= 1

\* C2: whenever the comment capability is invoked for a job, the time is at or after
\* the job's full fire_at (date and time of day).
C2_NeverEarly ==
    \A u \in Uids : \A i \in 1..Len(invoked[u]) : invoked[u][i] >= calls[u].scheduled_time

\* C3: once a worker tick that began at or after fire_at has finished, a job that was
\* pending when the tick began and has not been cancelled has been executed.
C3_FirstTickExecutes ==
    wpc = "sleep" =>
        \A u \in tickSeen :
            (~cancelCalled[u] /\ calls[u].scheduled_time <= tickStart) => fired[u] >= 1

\* C4: cancel returns true if and only if a job with that id was in the live set in
\* pending state at the moment of the call.
C4_CancelResult ==
    cancelLog.done => (cancelLog.ret <=> cancelLog.wasLive)

\* C5: after cancel has returned for a pending job that had not fired, the job is
\* absent from the live list, has no trigger, and the comment capability is never
\* invoked for it.
C5_CancelRemoves ==
    Quiescent =>
        \A u \in cancelledPending :
            u \notin LiveUids /\ u \notin TagUids /\ invoked[u] = <<>>

\* C6: when cancel(j) overlapped the worker's firing of j and both have finished:
\* cancel returned false, or it returned true and j's comment was never submitted;
\* the comment was submitted at most once; and the live list does not contain j.
C6_CancelRace ==
    Quiescent =>
        \A u \in Uids :
            (raced[u] /\ cancelLog.done /\ cancelLog.id = calls[u].id) =>
                /\ (~cancelLog.ret \/ invoked[u] = <<>>)
                /\ Len(invoked[u]) <= 1
                /\ u \notin LiveUids

\* C7: no schedule call returns an id that an earlier schedule call returned.
C7_UniqueIds ==
    \A u1 \in Uids, u2 \in Uids :
        (u1 # u2 /\ returned[u1] /\ returned[u2]) => calls[u1].id # calls[u2].id

\* C8: when no call is in progress, the live list holds exactly the jobs that were
\* scheduled and neither cancelled nor fired.
C8_NoLostUpdate ==
    Quiescent =>
        LiveUids = {u \in Uids : returned[u] /\ ~cancelCalled[u] /\ fired[u] = 0}

\* C9: schedule with empty comment text stores no job record and registers no trigger.
C9_EmptyRejected ==
    /\ \A i \in 1..Len(scheduled_jobs) : scheduled_jobs[i].comment_text # <<>>
    /\ \A i \in 1..Len(sched_jobs) : sched_jobs[i].comment_text # <<>>
    /\ c_job.status = "pending" => c_job.comment_text # <<>>

\* C10: after any sequence of loads, the resolvable ordinals are exactly those of the
\* accounts that passed in the most recent load, in its order, each with the session
\* handle the most recent load made.
Resolvable == {k \in 0..(MaxLoads * NumSlots + 1) : get_reddit_client(k) # None}
C10_LoadReplaces ==
    loads > 0 =>
        /\ Cardinality(Resolvable) = lastLoad.total_accounts
        /\ \A k \in 1..lastLoad.total_accounts :
                get_reddit_client(k) = [user |-> lastLoad.accounts[k].username, load |-> loads]

\* C11: after a load that reported total_accounts = n, resolve(k) for k in 1..n is the
\* k-th account that load loaded, and resolve(0) and resolve(n + 1) both fail.
C11_OrdinalOrder ==
    loads > 0 =>
        /\ \A k \in 1..lastLoad.total_accounts :
                get_reddit_client(k).user = lastLoad.accounts[k].username
        /\ get_reddit_client(0) = None
        /\ get_reddit_client(lastLoad.total_accounts + 1) = None

\* C12: while no load has been called, or the most recent load returned failure,
\* resolve fails for every ordinal.
C12_NotReadyFails ==
    (loads = 0 \/ ~lastLoad.success) =>
        \A k \in 0..(MaxLoads * NumSlots + 1) : get_reddit_client(k) = None

\* the discovered accounts that passed authentication and the probe in the last load
Passed == {i \in 1..Len(lastLoad.found) : lastLoad.outcome[lastLoad.found[i].username] = "ok"}

\* C13: a load returns success exactly when at least one discovered account passed in
\* that call, and its total_accounts is the number that passed in that call.
C13_LoadResult ==
    loads > 0 =>
        /\ lastLoad.success <=> Passed # {}
        /\ lastLoad.total_accounts = Cardinality(Passed)

\* a second load in which some account passed and another did not, after a first load
\* that loaded an account
C13_Witness ==
    /\ loads = 2
    /\ Len(account_usernames) > lastLoad.total_accounts
    /\ Passed # {}
    /\ Cardinality(Passed) < Len(lastLoad.found)

\* C14: every config a load discovered ends up loaded with an ordinal or recorded in
\* the per-account failures of that load.
C14_NoneDropped ==
    loads > 0 =>
        \A i \in 1..Len(lastLoad.discovered) :
            \/ \E k \in 1..Len(lastLoad.accounts) :
                    lastLoad.accounts[k].username = lastLoad.discovered[i]
            \/ \E k \in 1..Len(lastLoad.errors) :
                    lastLoad.errors[k] = lastLoad.discovered[i]

\* all five required fields of a config are non-empty
FullyPopulated(config) ==
    /\ config.client_id # "" /\ config.client_secret # "" /\ config.username # ""
    /\ config.password # "" /\ config.user_agent # ""

LoadedCount == IF lastSubmit.ready THEN lastSubmit.n_accounts ELSE 0

\* how many of body, url, image_path the request populates
Populated ==
    Cardinality({f \in {"body", "url", "image_path"} : lastSubmit.req[f] # ""})

\* the request names an ordinal, a destination and a title
FieldsPresent ==
    /\ lastSubmit.req.account_id # AbsentId
    /\ lastSubmit.req.subreddit_name # ""
    /\ lastSubmit.req.title # ""

\* the request passes the three validation steps
Validated ==
    /\ lastSubmit.called
    /\ FieldsPresent
    /\ lastSubmit.req.account_id \in 1..LoadedCount
    /\ Populated <= 1

\* the calls of the log that send a request to the platform
NetCalls == {i \in 1..Len(lastSubmit.result.log) : lastSubmit.result.log[i].net}

\* C16: submit reports the first failing precondition: MissingField when ordinal,
\* destination or title is absent, otherwise InvalidOrdinal when the ordinal is outside
\* 1..loaded_count, otherwise AmbiguousContentKind when more than one content field is
\* populated; a request failing none of them gets none of the three errors.
C16_ValidationOrder ==
    lastSubmit.called =>
        IF ~FieldsPresent THEN lastSubmit.result.error = "MissingField"
        ELSE IF lastSubmit.req.account_id \notin 1..LoadedCount
        THEN lastSubmit.result.error = "InvalidOrdinal"
        ELSE IF Populated > 1 THEN lastSubmit.result.error = "AmbiguousContentKind"
        ELSE lastSubmit.result.error
                \notin {"MissingField", "InvalidOrdinal", "AmbiguousContentKind"}

\* C17 as stated: every request with more than one content field populated fails with
\* AmbiguousContentKind and makes no call on the platform.
C17_AlwaysAmbiguous ==
    (lastSubmit.called /\ Populated > 1) =>
        /\ lastSubmit.result.error = "AmbiguousContentKind"
        /\ lastSubmit.result.log = <<>>

\* C17: a request with more than one content field populated fails without any call on
\* the platform; the failure is AmbiguousContentKind when the request has its ordinal,
\* destination and title and the ordinal resolves, and the earlier precondition's
\* failure (MissingField, InvalidOrdinal) otherwise.
C17_AmbiguousNoCall ==
    (lastSubmit.called /\ Populated > 1) =>
        /\ ~lastSubmit.result.success
        /\ lastSubmit.result.raised = ""
        /\ lastSubmit.result.log = <<>>
        /\ lastSubmit.result.error \in {"MissingField", "InvalidOrdinal", "AmbiguousContentKind"}
        /\ (FieldsPresent /\ lastSubmit.req.account_id \in 1..LoadedCount)
                => lastSubmit.result.error = "AmbiguousContentKind"

\* a request with all three content fields and a resolving ordinal was rejected
C17_Witness ==
    /\ lastSubmit.called
    /\ Populated = 3
    /\ lastSubmit.req.account_id \in 1..LoadedCount
    /\ lastSubmit.result.error = "AmbiguousContentKind"

\* the submission path a validated request selects, and that path's call
ExpectedKind ==
    IF lastSubmit.req.image_path # "" THEN "image"
    ELSE IF lastSubmit.req.url # "" THEN "link"
    ELSE "text"
ExpectedCall ==
    IF lastSubmit.req.image_path # ""
    THEN [op |-> "submit_image", arg |-> lastSubmit.req.image_path, net |-> TRUE]
    ELSE IF lastSubmit.req.url # ""
    THEN [op |-> "submit_url", arg |-> lastSubmit.req.url, net |-> TRUE]
    ELSE [op |-> "submit_selftext", arg |-> lastSubmit.req.body, net |-> TRUE]

\* the submission paths that ran: a path ran when its submission call was made; the
\* image path also ran when it ended at its file test, with MissingAsset
PathsRun ==
    {"image" : i \in {k \in NetCalls : lastSubmit.result.log[k].op = "submit_image"}}
    \cup {"image" : x \in {lastSubmit.result.error} \cap {"MissingAsset"}}
    \cup {"link" : i \in {k \in NetCalls : lastSubmit.result.log[k].op = "submit_url"}}
    \cup {"text" : i \in {k \in NetCalls : lastSubmit.result.log[k].op = "submit_selftext"}}

\* C18: for a validated request exactly one submission path runs, the one the populated
\* field selects: image for image_path, link for url, text for body, text with an
\* empty body for none; it makes at most one submission call, with that field's
\* value, and a successful result's kind names that path.
C18_OnePath ==
    Validated =>
        /\ PathsRun = {ExpectedKind}
        /\ Cardinality(NetCalls) <= 1
        /\ \A i \in NetCalls : lastSubmit.result.log[i] = ExpectedCall
        /\ lastSubmit.result.success =>
                (NetCalls # {} /\ lastSubmit.result.post_type = ExpectedKind)

\* a validated request with no content field was posted as text with an empty body
C18_Witness ==
    /\ Validated
    /\ Populated = 0
    /\ lastSubmit.result.success
    /\ lastSubmit.result.post_type = "text"
    /\ \E i \in NetCalls : lastSubmit.result.log[i].arg = ""

\* a validated image request whose file does not exist
MissingImage ==
    /\ Validated
    /\ lastSubmit.req.image_path # ""
    /\ lastSubmit.req.image_path \notin lastSubmit.fs

\* C19 as stated: an image request whose file does not exist fails with MissingAsset
\* and no call at all on the platform precedes the failure.
C19_NoCallAtAll ==
    MissingImage =>
        /\ lastSubmit.result.error = "MissingAsset"
        /\ lastSubmit.result.log = <<>>

\* C19: an image request whose file does not exist fails with MissingAsset before any
\* request is sent to the platform: no submission call is made, and the only call
\* before the failure builds the destination's lazy handle.
C19_MissingAsset ==
    MissingImage =>
        /\ lastSubmit.result.error = "MissingAsset"
        /\ ~lastSubmit.result.success
        /\ NetCalls = {}
        /\ \A i \in 1..Len(lastSubmit.result.log) : lastSubmit.result.log[i].op = "subreddit"

\* an image request with a missing file was refused
C19_Witness ==
    /\ MissingImage
    /\ lastSubmit.result.error = "MissingAsset"
    /\ lastSubmit.plat # Ok

\* the platform raised during the call
PlatformRaised == lastSubmit.called /\ lastSubmit.plat # Ok /\ NetCalls # {}

FailureKinds == {"Forbidden", "PayloadTooLarge", "InvalidFlair", "NotFound", "Redirected",
                 "RestrictedAccess", "TransportError", "Unclassified"}

\* C20: whatever the platform raises during submit, submit returns a failure of one
\* kind of the taxonomy and no exception leaves it; a failure of no specific kind is
\* Unclassified and carries the original message.
C20_TotalTaxonomy ==
    PlatformRaised =>
        /\ lastSubmit.result.raised = ""
        /\ ~lastSubmit.result.success
        /\ lastSubmit.result.error \in FailureKinds
        /\ lastSubmit.plat.type = "Exception" =>
                /\ lastSubmit.result.error = "Unclassified"
                /\ lastSubmit.result.message = lastSubmit.plat.msg

\* ---- classification
\* C21: when the platform raises a redirect during a destination lookup, at whichever
\* call of the lookup, the result is "not found": verify_subreddit reports NotFound,
\* and post_content reports NotFound/Redirected, never Unclassified or RestrictedAccess.
C21_RedirectNotFound ==
    /\ (/\ lastVerify.called
        /\ lastVerify.plat.type = "Redirect"
        /\ lastVerify.result.log # <<>>) => lastVerify.result.error = "NotFound"
    /\ (PlatformRaised /\ lastSubmit.plat.type = "Redirect")
            => lastSubmit.result.error \in {"NotFound", "Redirected"}

\* C22: for every error e the platform raises, post_content and post_scheduled_comment
\* (the path a job's firing runs) report the same kind of failure.
C22_SameClassification ==
    (/\ PlatformRaised
     /\ lastComment.called
     /\ lastComment.result.log # <<>>
     /\ lastComment.plat = lastSubmit.plat)
        => /\ lastComment.result.error = lastSubmit.result.error
           /\ lastComment.result.raised = lastSubmit.result.raised

\* ---- the scheduler, continued
\* C23: once a worker tick has run to its end, a job that was scheduled before the tick
\* began with a fire_at not after the tick's start, and was not cancelled, has been
\* executed exactly once, and the live list no longer holds it.
C23_PastFiresOnce ==
    Quiescent =>
        \A u \in tickSeen :
            (~cancelCalled[u] /\ calls[u].scheduled_time <= tickStart) =>
                (fired[u] = 1 /\ u \notin LiveUids)

\* C24: in every state a job whose schedule call has returned and that has neither
\* fired nor been cancelled is in the live list; and when no call is in progress a job
\* that has fired or been cancelled is not.
C24_VisibleWhilePending ==
    \A u \in Uids :
        /\ (returned[u] /\ ~cancelCalled[u] /\ fired[u] = 0) => u \in LiveUids
        /\ (Quiescent /\ returned[u] /\ (cancelCalled[u] \/ fired[u] > 0))
                => u \notin LiveUids

\* C27: a job whose comment submission failed at a firing (ordinal not resolving,
\* invalid URL, or an error raised by the platform) is not run a second time, and
\* when no call is in progress it is not in the live list.
C27_FailedNotRetried ==
    \A u \in Uids :
        (\E i \in 1..Len(outcomes[u]) :
                outcomes[u][i].result.error \in {"InvalidOrdinal", "InvalidUrl", "Unclassified"}) =>
            /\ Len(outcomes[u]) = 1
            /\ Quiescent => u \notin LiveUids

\* C25: every comment call a job's firing makes carries the full text that was passed
\* to schedule, whatever its length, and names the post of the URL that was passed.
C25_FullText ==
    \A u \in Uids : \A i \in 1..Len(outcomes[u]) :
        \A k \in 1..Len(outcomes[u][i].result.log) :
            LET call == outcomes[u][i].result.log[k]
            IN  /\ call.op = "reply" => call.arg = calls[u].comment_text
                /\ call.op = "submission" => call.arg = PostIdOf(calls[u].post_url)

\* a job with a text longer than the record keeps has fired and sent its comment,
\* while its record held the shortened text
C25_Witness ==
    \E u \in Uids : \E i \in 1..Len(outcomes[u]) :
        /\ Len(calls[u].comment_text) > PreviewLen
        /\ \E k \in 1..Len(outcomes[u][i].result.log) :
                outcomes[u][i].result.log[k].op = "reply"
        /\ wpc = "posted"
        /\ \E n \in 1..Len(scheduled_jobs) :
                /\ scheduled_jobs[n].uid = u
                /\ scheduled_jobs[n].comment_text = Preview(calls[u].comment_text)
                /\ scheduled_jobs[n].comment_text # calls[u].comment_text

\* C29: at most one worker thread is ever started; it has been started once any
\* schedule call has returned, and the scheduler is marked running exactly then.
C29_OneWorker ==
    /\ threads <= 1
    /\ (\E u \in Uids : returned[u]) => threads = 1
    /\ running <=> threads = 1

\* two schedule calls have returned, the second made while the worker was running
C29_Witness ==
    /\ \E u1 \in Uids, u2 \in Uids : u1 # u2 /\ returned[u1] /\ returned[u2]
    /\ running
    /\ threads = 1

\* C26: what get_scheduled_jobs handed out is a copy: later schedule, cancel and firing
\* leave its content as the caller made it, and the caller's changes to it never reach
\* the scheduler's own list.
C26_CopyOut ==
    snap.taken => (snap.value = snap.expect /\ ~snap.leaked)

\* the handle ordinal k names in the pool a firing found (the pool is recorded with
\* the firing's outcome)
HandleAt(o, k) ==
    IF o.is_loaded /\ k >= 1 /\ k <= Len(o.account_usernames)
          /\ o.account_usernames[k] \in DOMAIN o.reddit_accounts
    THEN o.reddit_accounts[o.account_usernames[k]]
    ELSE None

\* C30: every platform call of a firing goes through the handle the job's ordinal
\* names in the pool as it is at that firing, and a firing whose ordinal names no
\* handle then makes no platform call.
C30_ResolvedAtFiring ==
    \A u \in Uids : \A i \in 1..Len(outcomes[u]) :
        LET o == outcomes[u][i]
            h == HandleAt(o, calls[u].account_id)
        IN  /\ h = None => o.result.log = <<>>
            /\ \A n \in 1..Len(o.result.log) : o.result.log[n].client = h

\* a job fired while its ordinal named no handle and made no call; the pool was then
\* reloaded, and the job's next firing sent its comment through the handle of that load
C30_Witness ==
    \E u \in Uids : \E i \in 1..Len(outcomes[u]), j \in 1..Len(outcomes[u]) :
        /\ i < j
        /\ HandleAt(outcomes[u][i], calls[u].account_id) = None
        /\ outcomes[u][i].result.log = <<>>
        /\ outcomes[u][j].result.log # <<>>
        /\ \A n \in 1..Len(outcomes[u][j].result.log) :
                outcomes[u][j].result.log[n].client.load >= 2

\* the ordinals a caller can ask for: every position the pool can hold, and one
\* before and one after
ResolveOrdinals == 0..(MaxLoads * NumSlots + 1)

\* C28: a step that is not a load leaves the pool as it was: the accounts, their
\* order and the loaded flag are unchanged, so get_reddit_client(k) gives the same
\* handle for every k before and after the step.
C28_PoolStable ==
    [][loads' = loads =>
            /\ UNCHANGED <<reddit_accounts, account_usernames, is_loaded>>
            /\ \A k \in ResolveOrdinals : get_reddit_client(k)' = get_reddit_client(k)]_vars

\* on a loaded pool every other operation has run: a submit, a verify, a comment or
\* reply, a schedule with its firing, a cancel and a read of the job list
C28_Witness ==
    /\ is_loaded
    /\ get_reddit_client(1) # None
    /\ lastSubmit.called /\ lastSubmit.ready
    /\ lastVerify.called
    /\ lastComment.called
    /\ \E u \in Uids : returned[u] /\ Len(outcomes[u]) > 0
    /\ cancelLog.done
    /\ snap.taken

\* ---- post_content, continued
\* C31: when the submission call raises a RedditAPIException, post_content returns
\* InvalidFlair exactly when some item of the exception, at any position, is tagged
\* INVALID_FLAIR_TEMPLATE_ID; an InvalidFlairTemplateID exception returns InvalidFlair too.
C31_InvalidFlairScan ==
    PlatformRaised =>
        /\ lastSubmit.plat.type = "RedditAPIException" =>
                (lastSubmit.result.error = "InvalidFlair"
                    <=> \E i \in 1..Len(lastSubmit.plat.items) :
                            lastSubmit.plat.items[i] = "INVALID_FLAIR_TEMPLATE_ID")
        /\ lastSubmit.plat.type = "InvalidFlairTemplateID" =>
                lastSubmit.result.error = "InvalidFlair"

\* a batch whose first item is another error and whose second is the invalid-flair one
C31_Witness ==
    /\ PlatformRaised
    /\ lastSubmit.plat.type = "RedditAPIException"
    /\ Len(lastSubmit.plat.items) >= 2
    /\ lastSubmit.plat.items[1] # "INVALID_FLAIR_TEMPLATE_ID"
    /\ lastSubmit.plat.items[2] = "INVALID_FLAIR_TEMPLATE_ID"
    /\ lastSubmit.result.error = "InvalidFlair"

\* ---- the comment path, continued
\* the text is empty or spaces only
Blank(text) == \A i \in 1..Len(text) : text[i] = Space

\* the segment right after the first "/comments/" of the URL
SegmentAfterMarker(u) ==
    LET first == CHOOSE i \in 1..Len(u) :
                    MarkerAt(u, i) /\ \A n \in 1..(i - 1) : ~MarkerAt(u, n)
    IN  u[first + 1]

\* C34: post_scheduled_comment called with an empty text, an ordinal that does not
\* resolve or a URL without "/comments/", and reply_to_comment called with an empty
\* text or such an ordinal, return a failure without any call on the platform; with
\* a URL that holds the marker, the submission asked for is the segment after it.
C34_PreconditionsFirst ==
    lastComment.called =>
        LET c == lastComment
            unresolved == get_reddit_client(c.account_id) = None
            marked == \E i \in 1..Len(c.post_url) : MarkerAt(c.post_url, i)
        IN  /\ c.op = "post_scheduled_comment" =>
                IF Blank(c.comment_text) \/ unresolved \/ ~marked
                THEN ~c.result.success /\ c.result.log = <<>>
                ELSE /\ c.result.log # <<>>
                     /\ c.result.log[1].op = "submission"
                     /\ c.result.log[1].arg = SegmentAfterMarker(c.post_url)
            /\ c.op = "reply_to_comment" =>
                ((Blank(c.comment_text) \/ unresolved)
                    => ~c.result.success /\ c.result.log = <<>>)

\* on a loaded pool, a comment on a URL with segments after the submission id was sent
C34_Witness ==
    /\ lastComment.called
    /\ lastComment.op = "post_scheduled_comment"
    /\ lastComment.post_url = LongUrl
    /\ lastComment.result.success
    /\ lastComment.result.log[1].arg = "abc"

\* ---- the scheduler: registry and list
\* C35: when no schedule, cancel or firing is in progress, the ids that have a trigger
\* registered in the schedule package are the ids of the records in the live list.
C35_RegistryAgrees ==
    Quiescent =>
        {sched_jobs[i].tag : i \in 1..Len(sched_jobs)}
            = {scheduled_jobs[i].id : i \in 1..Len(scheduled_jobs)}

\* the records of job u in a job list, and the triggers of job u in a registry
RecordsOf(jobs, u) == SelectSeq(jobs, LAMBDA j : j.uid = u)
TriggersOf(reg, u) == {i \in 1..Len(reg) : reg[i].uid = u}

\* C36: the step that ends the firing of a job j (the assignment of line 806 and the
\* return into run_pending) leaves every other job that was scheduled before the tick
\* began, has not fired and is in the live list with its record, unchanged, and with
\* its trigger; so does the step that ends cancel_job for every such job whose id is
\* not the cancelled one.
C36_OthersUntouched ==
    [][/\ (wpc = "filtered" /\ wpc' # "filtered") =>
            \A u \in {v \in tickSeen \cap LiveUids : fired[v] = 0} \ {Head(w_queue).uid} :
                /\ RecordsOf(scheduled_jobs', u) = RecordsOf(scheduled_jobs, u)
                /\ TriggersOf(sched_jobs, u) # {} => TriggersOf(sched_jobs', u) # {}
       /\ (cpc = "cancel_filtered" /\ cpc' = "idle") =>
            \A u \in {v \in LiveUids : fired[v] = 0 /\ calls[v].id # c_id} :
                /\ RecordsOf(scheduled_jobs', u) = RecordsOf(scheduled_jobs, u)
                /\ TriggersOf(sched_jobs, u) # {} => TriggersOf(sched_jobs', u) # {}]_vars

\* C38: schedule_comment stores every job as pending and registers its trigger, whatever
\* its URL and ordinal; a firing of a job whose ordinal names no handle or whose URL
\* lacks "/comments/" makes no platform call, and the step that ends a firing leaves
\* the live list without the job's record.
C38_AcceptedUnchecked ==
    [][/\ (cpc = "sched_add" /\ cpc' = "idle") =>
            /\ \E n \in 1..Len(scheduled_jobs') :
                    /\ scheduled_jobs'[n].uid = c_job.uid
                    /\ scheduled_jobs'[n].status = "pending"
                    /\ scheduled_jobs'[n].post_url = calls[c_job.uid].post_url
                    /\ scheduled_jobs'[n].account_id = calls[c_job.uid].account_id
            /\ \E n \in 1..Len(sched_jobs') : sched_jobs'[n].uid = c_job.uid
       /\ (wpc = "filtered" /\ wpc' # "filtered") =>
            \A n \in 1..Len(scheduled_jobs') : scheduled_jobs'[n].uid # Head(w_queue).uid
       /\ \A u \in 1..Len(outcomes') : \A i \in 1..Len(outcomes'[u]) :
            LET o == outcomes'[u][i]
            IN  (\/ HandleAt(o, calls'[u].account_id) = None
                 \/ ~\E n \in 1..Len(calls'[u].post_url) : MarkerAt(calls'[u].post_url, n))
                    => ~o.result.success /\ o.result.log = <<>>]_vars

\* on a loaded pool, a job with a URL without the marker and a job with an ordinal
\* that names no account were both accepted, have fired without a platform call, and
\* are gone from the live list
C38_Witness ==
    /\ is_loaded
    /\ wpc = "sleep"
    /\ \E u \in Uids, v \in Uids :
            /\ calls[u].post_url = BadUrl /\ calls[u].account_id = 1
            /\ calls[v].post_url = GoodUrl /\ calls[v].account_id = 2
            /\ returned[u] /\ returned[v]
            /\ Len(outcomes[u]) > 0 /\ Len(outcomes[v]) > 0
            /\ outcomes[u][1].is_loaded /\ outcomes[v][1].is_loaded
            /\ outcomes[u][1].result.log = <<>> /\ outcomes[v][1].result.log = <<>>
            /\ u \notin LiveUids /\ v \notin LiveUids

\* C39: no exception leaves the comment path of a firing, so the worker thread never
\* ends; while it sleeps its next wake-up is at most one interval away; and when a tick
\* has ended, every trigger that was due when it began has been run, whatever the
\* firings before it in the tick returned.
C39_WorkerSurvives ==
    /\ wpc # "dead"
    /\ \A u \in Uids : \A i \in 1..Len(outcomes[u]) : outcomes[u][i].result.raised = ""
    /\ threads = 1 => running
    /\ wpc = "sleep" =>
            /\ wakeAt <= now + SleepInterval
            /\ \A n \in 1..Len(sched_jobs) : sched_jobs[n].next_run > tickStart

\* a tick in which the platform refused the first job's comment has ended, and the job
\* queued behind it was executed in the same tick
C39_Witness ==
    /\ wpc = "sleep"
    /\ \E u \in Uids, v \in Uids :
            /\ u # v
            /\ Len(outcomes[u]) > 0 /\ Len(outcomes[v]) > 0
            /\ ~outcomes[u][1].result.success
            /\ outcomes[u][1].result.log # <<>>
            /\ outcomes[v][1].at = outcomes[u][1].at
            /\ outcomes[v][1].result.success
            /\ \E n \in 1..Len(sched_jobs), m \in 1..Len(sched_jobs) :
                    n < m /\ sched_jobs[n].uid = u /\ sched_jobs[m].uid = v

\* ---- the pool, continued
\* C37: after a successful load, every entry {id, username} of the accounts list it
\* returned names an ordinal that resolves, in the pool as the load left it, to the
\* account of that username.
C37_AccountsAgree ==
    lastLoad.success =>
        \A k \in 1..Len(lastLoad.accounts) :
            /\ get_account_username(lastLoad.accounts[k].id) = lastLoad.accounts[k].username
            /\ get_reddit_client(lastLoad.accounts[k].id).user = lastLoad.accounts[k].username

\* ---- discovery, continued
\* C33: when some indexed slot is complete, every entry discovery returns is a complete
\* indexed slot and the legacy slot adds none; when no indexed slot is complete, the
\* result is the legacy slot alone if it is complete and nothing otherwise.
C33_LegacyFallback ==
    loads > 0 =>
        LET slots == lastLoad.env.slots
            legacy == lastLoad.env.legacy
            found == lastLoad.found
        IN  IF \E i \in 1..Len(slots) : FullyPopulated(slots[i])
            THEN \A k \in 1..Len(found) :
                    \E i \in 1..Len(slots) : FullyPopulated(slots[i]) /\ found[k] = slots[i]
            ELSE found = IF FullyPopulated(legacy) THEN <<legacy>> ELSE <<>>

\* a complete indexed slot next to a complete legacy slot of another username: the
\* legacy account is not discovered
C33_Witness ==
    /\ loads > 0
    /\ \E i \in 1..Len(lastLoad.env.slots) : FullyPopulated(lastLoad.env.slots[i])
    /\ FullyPopulated(lastLoad.env.legacy)
    /\ \A i \in 1..Len(lastLoad.env.slots) :
            lastLoad.env.slots[i].username # lastLoad.env.legacy.username
    /\ lastLoad.found # <<>>
    /\ \A k \in 1..Len(lastLoad.found) :
            lastLoad.found[k].username # lastLoad.env.legacy.username

\* C32: when some indexed slot is complete, what discovery returns is the complete
\* slots themselves, one entry each, in ascending slot order, and the accounts a load
\* reports follow that order.
C32_OnePerSlot ==
    (loads > 0 /\ \E i \in 1..Len(lastLoad.env.slots) : FullyPopulated(lastLoad.env.slots[i]))
        => /\ lastLoad.found = SelectSeq(lastLoad.env.slots, FullyPopulated)
           /\ \A a \in 1..Len(lastLoad.accounts), b \in 1..Len(lastLoad.accounts) :
                a < b =>
                    \E i \in 1..Len(lastLoad.found), j \in 1..Len(lastLoad.found) :
                        /\ i < j
                        /\ lastLoad.found[i].username = lastLoad.accounts[a].username
                        /\ lastLoad.found[j].username = lastLoad.accounts[b].username

====
